---- MODULE Spec2Model ----
(***************************************************************************)
(* Expiring-record lifecycle of the temporary content sharing API          *)
(* (src/main.py): slug allocation, page creation, lazy expiry on read      *)
(* (get_page, view_page) and the periodic sweep (cleanup_loop), over a     *)
(* shared document store and a shared filesystem.                          *)
(*                                                                         *)
(* Time is in whole seconds.  Strings that the code takes apart are        *)
(* sequences: a slug or token is a sequence of base64url alphabet indices  *)
(* (0..61 alphanumeric, 62 "-", 63 "_"); an asset reference is a sequence  *)
(* of tokens, "/" or a file name; a filesystem path is the sequence of     *)
(* its components from the root.                                           *)
(***************************************************************************)
EXTENDS Integers, Sequences, FiniteSets, TLC

\* Python's None, one value per type it stands in for
None == -1
NoString == <<>>
NoAssets == << <<"None">> >>
NoDoc == [id |-> 0, slug |-> <<>>, html |-> "", created_at |-> 0, expires_at |-> 0, assets |-> <<>>]
NoPayload == [html |-> "", ttl_seconds |-> None, assets |-> NoAssets]
NoResp == [status |-> 0, slug |-> <<>>, html |-> "", expires_at |-> None, ttl_seconds |-> None,
           remaining_seconds |-> None, assets |-> <<>>]

\* ---- program constants -------------------------------------------------
DEFAULT_TTL_SECONDS == 600
MinTtlSeconds == 60
MaxTtlSeconds == 86400
SlugLength == 8

\* ---- bounds ------------------------------------------------------------
MaxPages == 2
MaxTime == 60
TickStep == 60
MaxGenLength == 4
MaxFaults == 1

\* the request handlers run on worker threads; two of them serve requests
Threads == {1, 2}

\* ---- filesystem --------------------------------------------------------
Cwd == <<"app">>
UPLOAD_DIR == Cwd \o <<"uploads">>

InitialFiles == { UPLOAD_DIR \o <<"a.png">>, UPLOAD_DIR \o <<"b.png">>, Cwd \o <<"main.py">> }

isfile(path, files) == path \in files

\* asset.lstrip("/")
RECURSIVE lstrip(_)
lstrip(asset) == IF Len(asset) > 0 /\ Head(asset) = "/" THEN lstrip(Tail(asset)) ELSE asset

\* the components of a relative path string
Components(relative) == SelectSeq(relative, LAMBDA tok : tok # "/")

\* os.path.join(base, relative), relative not starting with "/"
join(base, relative) == base \o Components(relative)

\* os.path.basename(relative): what follows the last "/"
basename(relative) == IF Len(relative) = 0 \/ relative[Len(relative)] = "/" THEN <<>> ELSE <<relative[Len(relative)]>>

\* lines 54-58 / 182-185 / 213-216: the path the cleanup will try for one asset
ResolveFallback(asset, files) == join(UPLOAD_DIR, basename(lstrip(asset)))

ResolveAsset(asset, files) ==
  LET relative == lstrip(asset)
      path == join(Cwd, relative)
  IN IF ~ isfile(path, files) THEN ResolveFallback(asset, files) ELSE path

\* ---- slug generation ---------------------------------------------------
\* secrets.token_urlsafe: unpadded base64url of the random bytes
RECURSIVE token_urlsafe(_)
token_urlsafe(bs) ==
  IF Len(bs) = 0 THEN <<>>
  ELSE IF Len(bs) = 1 THEN << bs[1] \div 4, (bs[1] % 4) * 16 >>
  ELSE IF Len(bs) = 2 THEN << bs[1] \div 4, (bs[1] % 4) * 16 + (bs[2] \div 16), (bs[2] % 16) * 4 >>
  ELSE << bs[1] \div 4, (bs[1] % 4) * 16 + (bs[2] \div 16), (bs[2] % 16) * 4 + (bs[3] \div 64), bs[3] % 64 >>
       \o token_urlsafe(SubSeq(bs, 4, Len(bs)))

IsAlnum(c) == c < 62

Truncate(s, length) == SubSeq(s, 1, IF Len(s) < length THEN Len(s) ELSE length)

\* line 142: re.sub(r"[^A-Za-z0-9]", "", slug)[:length]
SlugOf(token, length) == Truncate(SelectSeq(token, IsAlnum), length)

\* ---- inputs ------------------------------------------------------------
\* random byte strings drawn by generate_slug(8)
TokenBytes == { <<0, 0, 0, 0, 0, 0, 0, 0>>, <<255, 240, 0, 0, 0, 0, 0, 0>>, <<255, 255, 255, 255, 255, 255, 255, 255>> }

GenBytes == {0, 251, 255}


RefA == <<"/", "uploads", "/", "a.png">>
RefBare == <<"a.png">>
RefB == <<"/", "uploads", "/", "b.png">>
RefCode == <<"main.py">>

\* request bodies of POST /api/pages: a short-lived page with one asset
\* reference (a bare file name; two such pages share the file, so the second
\* cleanup finds it gone), a page with the default TTL and no asset list, and
\* a body that validation rejects
Payloads == { [html |-> "<p>a</p>", ttl_seconds |-> 60, assets |-> <<RefBare>>],
              [html |-> "<p>b</p>", ttl_seconds |-> None, assets |-> NoAssets],
              [html |-> "<p>b</p>", ttl_seconds |-> 59, assets |-> <<RefA>>] }

\* request bodies for the asset cleanup on its own: a page with references
\* to two uploaded files, and a page whose reference names a file of the
\* working directory
AssetPayloads == { [html |-> "<p>a</p>", ttl_seconds |-> 60, assets |-> <<RefA, RefB>>],
                   [html |-> "<p>c</p>", ttl_seconds |-> 60, assets |-> <<RefCode>>] }

SlugInputs == { SlugOf(token_urlsafe(bs), SlugLength) : bs \in TokenBytes }

\* ---- state -------------------------------------------------------------
VARIABLES clock, store, nextId, fs, th, sw, gs, faults, collided, start

\* collided is a history variable: an insert_one has stored a record under a
\* slug that was in the store.  start is a history variable: the store, the
\* files and the clock as they were when the operation that runs alone began
vars == <<clock, store, nextId, fs, th, sw, gs, faults, collided, start>>

Idle == [pc |-> "idle", op |-> "none", payload |-> NoPayload, slug |-> NoString, now |-> None, ttl |-> None,
         expires_at |-> None, doc |-> NoDoc, idx |-> 0, path |-> NoString, resp |-> NoResp,
         paths |-> {}, raised |-> FALSE]

SweepInit == [pc |-> "sleep", now |-> None, expired |-> <<>>, di |-> 0, ai |-> 0, path |-> NoString,
              paths |-> {}, error |-> FALSE]

GenIdle == [pc |-> "off", length |-> 0, bytes |-> <<>>, slug |-> NoString]

Init ==
  /\ clock = 0
  /\ store = {}
  /\ nextId = 1
  /\ fs = InitialFiles
  /\ th = [t \in Threads |-> Idle]
  /\ sw = SweepInit
  /\ gs = GenIdle
  /\ faults = 0
  /\ collided = FALSE
  /\ start = [store |-> {}, fs |-> InitialFiles, clock |-> 0]

\* ---- store (db["page"]) --------------------------------------------------
Matching(slug) == { d \in store : d.slug = slug }

count_documents(slug) == Cardinality(Matching(slug))

\* natural (insertion) order: the lowest _id first
First(docs) == CHOOSE d \in docs : \A e \in docs : d.id <= e.id

find_one(slug) == IF Matching(slug) = {} THEN NoDoc ELSE First(Matching(slug))

RECURSIVE InOrder(_)
InOrder(docs) == IF docs = {} THEN <<>> ELSE <<First(docs)>> \o InOrder(docs \ {First(docs)})

\* the query with $lt in place of $lte
find_expiredStrict(now) == InOrder({ d \in store : d.expires_at < now })

\* find({"expires_at": {"$lte": now}})
find_expired(now) == InOrder({ d \in store : d.expires_at <= now })

\* ---- clock -------------------------------------------------------------
Tick ==
  /\ clock + TickStep <= MaxTime
  /\ clock' = clock + TickStep
  /\ UNCHANGED <<store, nextId, fs, th, sw, gs, faults, collided, start>>

\* ---- create_page -------------------------------------------------------
\* PageCreate: ttl_seconds is None or within ge=60, le=86400
ValidPayload(p) == p.ttl_seconds = None \/ (p.ttl_seconds >= MinTtlSeconds /\ p.ttl_seconds <= MaxTtlSeconds)

CreatesInFlight == Cardinality({ t \in Threads : th[t].op = "create" /\ th[t].pc # "done" })

\* lines 149-151, and the 422 of request validation, for a request body of
\* bodies
CreateFrom(t, bodies) ==
  /\ th[t].pc = "idle"
  /\ nextId + CreatesInFlight <= MaxPages
  /\ \E payload \in bodies :
       LET ttl == IF payload.ttl_seconds = None THEN DEFAULT_TTL_SECONDS ELSE payload.ttl_seconds
       IN IF ValidPayload(payload)
          THEN th' = [th EXCEPT ![t] = [Idle EXCEPT !.pc = "c_gen", !.op = "create", !.payload = payload,
                                                    !.now = clock, !.ttl = ttl, !.expires_at = clock + ttl]]
          ELSE th' = [th EXCEPT ![t] = [Idle EXCEPT !.pc = "done", !.op = "rejected", !.resp = [NoResp EXCEPT !.status = 422]]]
  /\ UNCHANGED <<clock, store, nextId, fs, sw, gs, faults, collided, start>>

CreateBegin(t) == CreateFrom(t, Payloads)

CreateBeginAssets(t) == CreateFrom(t, AssetPayloads)

\* lines 140-144: one iteration of generate_slug's loop
SlugAccepted(slug) == slug # <<>> /\ count_documents(slug) = 0

GenerateSlug(t) ==
  /\ th[t].pc = "c_gen"
  /\ \E bs \in TokenBytes :
       LET slug == SlugOf(token_urlsafe(bs), SlugLength)
       IN IF SlugAccepted(slug)
          THEN th' = [th EXCEPT ![t].pc = "c_insert", ![t].slug = slug]
          ELSE th' = th
  /\ UNCHANGED <<clock, store, nextId, fs, sw, gs, faults, collided, start>>

\* lines 154-160 with created_at sampled anew when the document is built
NewDocLateClock(t) == [id |-> nextId, slug |-> th[t].slug, html |-> th[t].payload.html, created_at |-> clock,
                       expires_at |-> th[t].expires_at,
                       assets |-> IF th[t].payload.assets = NoAssets THEN <<>> ELSE th[t].payload.assets]

\* lines 154-168
NewDoc(t) == [id |-> nextId, slug |-> th[t].slug, html |-> th[t].payload.html, created_at |-> th[t].now,
              expires_at |-> th[t].expires_at,
              assets |-> IF th[t].payload.assets = NoAssets THEN <<>> ELSE th[t].payload.assets]

InsertPage(t) ==
  /\ th[t].pc = "c_insert"
  /\ store' = store \cup {NewDoc(t)}
  /\ nextId' = nextId + 1
  /\ collided' = (collided \/ count_documents(th[t].slug) > 0)
  /\ th' = [th EXCEPT ![t].pc = "done", ![t].doc = NewDoc(t),
                      ![t].resp = [NoResp EXCEPT !.status = 200, !.slug = th[t].slug,
                                                   !.expires_at = th[t].expires_at, !.ttl_seconds = th[t].ttl]]
  /\ UNCHANGED <<clock, fs, sw, gs, faults, start>>

\* ---- pymongo and os calls used by the cleanup paths ----------------------
\* delete_one({"_id": id}): an absent document is not an error
delete_one(docs, id) == { d \in docs : d.id # id }

\* delete_many({"_id": {"$in": ids}})
delete_many(docs, ids) == { d \in docs : d.id \notin ids }

\* os.remove(path): FileNotFoundError when there is no such file
os_remove(path, files) == [files |-> files \ {path}, raised |-> path \notin files]

\* the difference taken the wrong way round
RemainingSecondsSwapped(expires_at, now) == now - expires_at

\* int((expires_at - now).total_seconds()), on whole seconds
RemainingSeconds(expires_at, now) == expires_at - now

Max(a, b) == IF a > b THEN a ELSE b

\* ---- get_page ----------------------------------------------------------
\* lines 173-175
GetPageFind(t) ==
  /\ th[t].pc = "idle"
  /\ \E slug \in SlugInputs :
       LET doc == find_one(slug)
       IN IF doc = NoDoc
          THEN th' = [th EXCEPT ![t] = [Idle EXCEPT !.pc = "done", !.op = "get", !.slug = slug,
                                                    !.resp = [NoResp EXCEPT !.status = 404]]]
          ELSE th' = [th EXCEPT ![t] = [Idle EXCEPT !.pc = "g_now", !.op = "get", !.slug = slug, !.doc = doc]]
  /\ UNCHANGED <<clock, store, nextId, fs, sw, gs, faults, collided, start>>

\* line 177 with < in place of <=
GetPageExpiredStrict(doc, now) == doc.expires_at < now

\* line 177
GetPageExpired(doc, now) == doc.expires_at <= now

\* lines 193-200
GetPageBody(doc, now) ==
  [NoResp EXCEPT !.status = 200, !.slug = doc.slug, !.html = doc.html, !.expires_at = doc.expires_at,
                 !.remaining_seconds = Max(0, RemainingSeconds(doc.expires_at, now)), !.assets = doc.assets]

\* lines 176-177 and 193-200
GetPageNow(t) ==
  /\ th[t].pc = "g_now"
  /\ IF GetPageExpired(th[t].doc, clock)
     THEN th' = [th EXCEPT ![t].pc = "g_delete", ![t].now = clock]
     ELSE th' = [th EXCEPT ![t].pc = "done", ![t].now = clock, ![t].resp = GetPageBody(th[t].doc, clock)]
  /\ UNCHANGED <<clock, store, nextId, fs, sw, gs, faults, collided, start>>

\* line 191 raising the 404 of line 175
GetPageAdvanceNotFound(r) ==
  IF r.idx < Len(r.doc.assets)
  THEN [r EXCEPT !.pc = "g_resolve", !.idx = r.idx + 1]
  ELSE [r EXCEPT !.pc = "done", !.resp = [NoResp EXCEPT !.status = 404]]

\* the for loop of lines 181-190 moves to the next asset, or line 191 raises 410
GetPageAdvance(r) ==
  IF r.idx < Len(r.doc.assets)
  THEN [r EXCEPT !.pc = "g_resolve", !.idx = r.idx + 1]
  ELSE [r EXCEPT !.pc = "done", !.resp = [NoResp EXCEPT !.status = 410]]

\* line 179 as delete_one({"slug": slug}): the first record under the slug
GetPageDeleteBySlug(t) ==
  /\ th[t].pc = "g_delete"
  /\ store' = store \ {find_one(th[t].slug)}
  /\ th' = [th EXCEPT ![t] = GetPageAdvance(th[t])]
  /\ UNCHANGED <<clock, nextId, fs, sw, gs, faults, collided, start>>

\* line 179 left out: the expired record stays in the store
GetPageDeleteForgets(t) ==
  /\ th[t].pc = "g_delete"
  /\ th' = [th EXCEPT ![t] = GetPageAdvance(th[t])]
  /\ UNCHANGED <<clock, store, nextId, fs, sw, gs, faults, collided, start>>

\* line 179
GetPageDelete(t) ==
  /\ th[t].pc = "g_delete"
  /\ store' = delete_one(store, th[t].doc.id)
  /\ th' = [th EXCEPT ![t] = GetPageAdvance(th[t])]
  /\ UNCHANGED <<clock, nextId, fs, sw, gs, faults, collided, start>>

\* lines 182-185
GetPageResolve(t) ==
  /\ th[t].pc = "g_resolve"
  /\ LET path == ResolveAsset(th[t].doc.assets[th[t].idx], fs)
     IN th' = [th EXCEPT ![t].pc = "g_isfile", ![t].path = path, ![t].paths = th[t].paths \cup {path}]
  /\ UNCHANGED <<clock, store, nextId, fs, sw, gs, faults, collided, start>>

\* line 187
GetPageIsFile(t) ==
  /\ th[t].pc = "g_isfile"
  /\ IF isfile(th[t].path, fs)
     THEN th' = [th EXCEPT ![t].pc = "g_remove"]
     ELSE th' = [th EXCEPT ![t] = GetPageAdvance(th[t])]
  /\ UNCHANGED <<clock, store, nextId, fs, sw, gs, faults, collided, start>>

\* lines 188-190 without the try: a failed os.remove ends the request in a 500
GetPageRemoveUncaught(t) ==
  /\ th[t].pc = "g_remove"
  /\ LET r == os_remove(th[t].path, fs)
     IN /\ fs' = r.files
        /\ th' = IF r.raised
                 THEN [th EXCEPT ![t].pc = "done", ![t].raised = TRUE, ![t].resp = [NoResp EXCEPT !.status = 500]]
                 ELSE [th EXCEPT ![t] = GetPageAdvance(th[t])]
  /\ UNCHANGED <<clock, store, nextId, sw, gs, faults, collided, start>>

\* lines 188-190: the except clause absorbs a failed os.remove
GetPageRemove(t) ==
  /\ th[t].pc = "g_remove"
  /\ LET r == os_remove(th[t].path, fs)
     IN /\ fs' = r.files
        /\ th' = [th EXCEPT ![t] = GetPageAdvance(th[t])]
  /\ UNCHANGED <<clock, store, nextId, sw, gs, faults, collided, start>>

\* ---- view_page ---------------------------------------------------------
\* lines 205-207
ViewPageFind(t) ==
  /\ th[t].pc = "idle"
  /\ \E slug \in SlugInputs :
       LET doc == find_one(slug)
       IN IF doc = NoDoc
          THEN th' = [th EXCEPT ![t] = [Idle EXCEPT !.pc = "done", !.op = "view", !.slug = slug,
                                                    !.resp = [NoResp EXCEPT !.status = 404]]]
          ELSE th' = [th EXCEPT ![t] = [Idle EXCEPT !.pc = "v_now", !.op = "view", !.slug = slug, !.doc = doc]]
  /\ UNCHANGED <<clock, store, nextId, fs, sw, gs, faults, collided, start>>

\* line 209 with < in place of <=
ViewPageExpiredStrict(doc, now) == doc.expires_at < now

\* line 209
ViewPageExpired(doc, now) == doc.expires_at <= now

\* lines 226-266: the stored html inside the wrapper, with the countdown
ViewPageBody(doc, now) ==
  [NoResp EXCEPT !.status = 200, !.html = doc.html, !.remaining_seconds = RemainingSeconds(doc.expires_at, now)]

\* lines 208-209 and 226-266
ViewPageNow(t) ==
  /\ th[t].pc = "v_now"
  /\ IF ViewPageExpired(th[t].doc, clock)
     THEN th' = [th EXCEPT ![t].pc = "v_delete", ![t].now = clock]
     ELSE th' = [th EXCEPT ![t].pc = "done", ![t].now = clock, ![t].resp = ViewPageBody(th[t].doc, clock)]
  /\ UNCHANGED <<clock, store, nextId, fs, sw, gs, faults, collided, start>>

\* the for loop of lines 212-221 moves to the next asset, or line 222 returns 410
ViewPageAdvance(r) ==
  IF r.idx < Len(r.doc.assets)
  THEN [r EXCEPT !.pc = "v_resolve", !.idx = r.idx + 1]
  ELSE [r EXCEPT !.pc = "done", !.resp = [NoResp EXCEPT !.status = 410]]

\* line 211
ViewPageDelete(t) ==
  /\ th[t].pc = "v_delete"
  /\ store' = delete_one(store, th[t].doc.id)
  /\ th' = [th EXCEPT ![t] = ViewPageAdvance(th[t])]
  /\ UNCHANGED <<clock, nextId, fs, sw, gs, faults, collided, start>>

\* lines 213-216
ViewPageResolve(t) ==
  /\ th[t].pc = "v_resolve"
  /\ LET path == ResolveAsset(th[t].doc.assets[th[t].idx], fs)
     IN th' = [th EXCEPT ![t].pc = "v_isfile", ![t].path = path, ![t].paths = th[t].paths \cup {path}]
  /\ UNCHANGED <<clock, store, nextId, fs, sw, gs, faults, collided, start>>

\* line 218
ViewPageIsFile(t) ==
  /\ th[t].pc = "v_isfile"
  /\ IF isfile(th[t].path, fs)
     THEN th' = [th EXCEPT ![t].pc = "v_remove"]
     ELSE th' = [th EXCEPT ![t] = ViewPageAdvance(th[t])]
  /\ UNCHANGED <<clock, store, nextId, fs, sw, gs, faults, collided, start>>

\* lines 219-221 without the os.remove call
ViewPageRemoveSkips(t) ==
  /\ th[t].pc = "v_remove"
  /\ th' = [th EXCEPT ![t] = ViewPageAdvance(th[t])]
  /\ UNCHANGED <<clock, store, nextId, fs, sw, gs, faults, collided, start>>

\* lines 219-221
ViewPageRemove(t) ==
  /\ th[t].pc = "v_remove"
  /\ LET r == os_remove(th[t].path, fs)
     IN /\ fs' = r.files
        /\ th' = [th EXCEPT ![t] = ViewPageAdvance(th[t])]
  /\ UNCHANGED <<clock, store, nextId, sw, gs, faults, collided, start>>

\* ---- cleanup_loop ------------------------------------------------------
\* line 69 has returned (the sleep lasts at least 60 s; how long is not
\* tracked, so cycles may follow each other at any distance), line 47
SweepNow ==
  /\ sw.pc = "sleep"
  /\ sw' = [sw EXCEPT !.pc = "find", !.now = clock]
  /\ UNCHANGED <<clock, store, nextId, fs, th, gs, faults, collided, start>>

\* the next document of the snapshot that has an asset to clean, 0 if none
RECURSIVE NextDocWithAssets(_, _)
NextDocWithAssets(expired, di) ==
  IF di > Len(expired) THEN 0
  ELSE IF Len(expired[di].assets) > 0 THEN di
  ELSE NextDocWithAssets(expired, di + 1)

\* the two for loops of lines 51-52 move on, or line 65 is reached
SweepAdvance(s) ==
  IF s.di > 0 /\ s.ai < Len(s.expired[s.di].assets)
  THEN [s EXCEPT !.pc = "resolve", !.ai = s.ai + 1]
  ELSE LET nd == NextDocWithAssets(s.expired, s.di + 1)
       IN IF nd = 0
          THEN [s EXCEPT !.pc = "delete_many", !.di = 0, !.ai = 0]
          ELSE [s EXCEPT !.pc = "resolve", !.di = nd, !.ai = 1]

\* lines 48-49
SweepFind ==
  /\ sw.pc = "find"
  /\ LET expired == find_expired(sw.now)
     IN IF expired = <<>>
        THEN sw' = [sw EXCEPT !.pc = "cycle_end", !.expired = expired, !.di = 0, !.ai = 0, !.path = NoString]
        ELSE sw' = SweepAdvance([sw EXCEPT !.expired = expired, !.di = 0, !.ai = 0, !.path = NoString])
  /\ UNCHANGED <<clock, store, nextId, fs, th, gs, faults, collided, start>>

\* lines 54-58
SweepResolve ==
  /\ sw.pc = "resolve"
  /\ LET path == ResolveAsset(sw.expired[sw.di].assets[sw.ai], fs)
     IN sw' = [sw EXCEPT !.pc = "isfile", !.path = path, !.paths = sw.paths \cup {path}]
  /\ UNCHANGED <<clock, store, nextId, fs, th, gs, faults, collided, start>>

\* line 60
SweepIsFile ==
  /\ sw.pc = "isfile"
  /\ IF isfile(sw.path, fs)
     THEN sw' = [sw EXCEPT !.pc = "remove"]
     ELSE sw' = SweepAdvance(sw)
  /\ UNCHANGED <<clock, store, nextId, fs, th, gs, faults, collided, start>>

\* lines 61-63
SweepRemove ==
  /\ sw.pc = "remove"
  /\ LET r == os_remove(sw.path, fs)
     IN /\ fs' = r.files
        /\ sw' = SweepAdvance(sw)
  /\ UNCHANGED <<clock, store, nextId, th, gs, faults, collided, start>>

\* line 65: the _id values of the snapshot
SnapshotIds(expired) == { expired[i].id : i \in 1..Len(expired) }

\* line 65 deleting by slug instead of by _id
SweepDeleteManyBySlug ==
  /\ sw.pc = "delete_many"
  /\ store' = { d \in store : d.slug \notin { sw.expired[i].slug : i \in 1..Len(sw.expired) } }
  /\ sw' = [sw EXCEPT !.pc = "cycle_end"]
  /\ UNCHANGED <<clock, nextId, fs, th, gs, faults, collided, start>>

SweepDeleteMany ==
  /\ sw.pc = "delete_many"
  /\ store' = delete_many(store, SnapshotIds(sw.expired))
  /\ sw' = [sw EXCEPT !.pc = "cycle_end"]
  /\ UNCHANGED <<clock, nextId, fs, th, gs, faults, collided, start>>

\* line 69: the cycle is over and the task sleeps; nothing of the cycle's
\* locals is read again before lines 47-48 assign them anew
SweepSleep ==
  /\ sw.pc = "cycle_end"
  /\ sw' = SweepInit
  /\ UNCHANGED <<clock, store, nextId, fs, th, gs, faults, collided, start>>

\* ---- the store is unreachable ------------------------------------------
\* a pymongo call raises; at most MaxFaults calls fail in a run
\* line 143 raises inside create_page: the request ends in a 500
GenerateSlugFails(t) ==
  /\ th[t].pc = "c_gen"
  /\ faults < MaxFaults
  /\ faults' = faults + 1
  /\ th' = [th EXCEPT ![t].pc = "done", ![t].raised = TRUE, ![t].resp = [NoResp EXCEPT !.status = 500]]
  /\ UNCHANGED <<clock, store, nextId, fs, sw, gs, collided, start>>

\* line 161 raises: the request ends in a 500
InsertPageFails(t) ==
  /\ th[t].pc = "c_insert"
  /\ faults < MaxFaults
  /\ faults' = faults + 1
  /\ th' = [th EXCEPT ![t].pc = "done", ![t].raised = TRUE, ![t].resp = [NoResp EXCEPT !.status = 500]]
  /\ UNCHANGED <<clock, store, nextId, fs, sw, gs, collided, start>>

\* line 48 raises with no try around the cycle: the task ends
SweepFindFailsFatal ==
  /\ sw.pc = "find"
  /\ faults < MaxFaults
  /\ faults' = faults + 1
  /\ sw' = [sw EXCEPT !.pc = "dead", !.error = TRUE]
  /\ UNCHANGED <<clock, store, nextId, fs, th, gs, collided, start>>

\* line 48 raises; lines 66-68 swallow it and line 69 is reached
SweepFindFails ==
  /\ sw.pc = "find"
  /\ faults < MaxFaults
  /\ faults' = faults + 1
  /\ sw' = [sw EXCEPT !.pc = "cycle_end", !.error = TRUE]
  /\ UNCHANGED <<clock, store, nextId, fs, th, gs, collided, start>>

\* line 65 raises with no try around the cycle: the task ends
SweepDeleteManyFailsFatal ==
  /\ sw.pc = "delete_many"
  /\ faults < MaxFaults
  /\ faults' = faults + 1
  /\ sw' = [sw EXCEPT !.pc = "dead", !.error = TRUE]
  /\ UNCHANGED <<clock, store, nextId, fs, th, gs, collided, start>>

\* line 65 raises; lines 66-68 swallow it and line 69 is reached
SweepDeleteManyFails ==
  /\ sw.pc = "delete_many"
  /\ faults < MaxFaults
  /\ faults' = faults + 1
  /\ sw' = [sw EXCEPT !.pc = "cycle_end", !.error = TRUE]
  /\ UNCHANGED <<clock, store, nextId, fs, th, gs, collided, start>>

\* ---- a file cannot be removed -------------------------------------------
\* os.remove raises for a file that exists (PermissionError, a busy file);
\* at most MaxFaults calls fail in a run
\* lines 188-190: the except clause absorbs it, the file stays
GetPageRemoveFails(t) ==
  /\ th[t].pc = "g_remove"
  /\ isfile(th[t].path, fs)
  /\ faults < MaxFaults
  /\ faults' = faults + 1
  /\ th' = [th EXCEPT ![t] = GetPageAdvance(th[t])]
  /\ UNCHANGED <<clock, store, nextId, fs, sw, gs, collided, start>>

\* lines 219-221
ViewPageRemoveFails(t) ==
  /\ th[t].pc = "v_remove"
  /\ isfile(th[t].path, fs)
  /\ faults < MaxFaults
  /\ faults' = faults + 1
  /\ th' = [th EXCEPT ![t] = ViewPageAdvance(th[t])]
  /\ UNCHANGED <<clock, store, nextId, fs, sw, gs, collided, start>>

\* lines 61-63 without the inner try: the exception reaches line 66 and the
\* rest of the cycle, delete_many included, is skipped
SweepRemoveFailsAborts ==
  /\ sw.pc = "remove"
  /\ isfile(sw.path, fs)
  /\ faults < MaxFaults
  /\ faults' = faults + 1
  /\ sw' = [sw EXCEPT !.pc = "cycle_end", !.error = TRUE]
  /\ UNCHANGED <<clock, store, nextId, fs, th, gs, collided, start>>

\* lines 61-63
SweepRemoveFails ==
  /\ sw.pc = "remove"
  /\ isfile(sw.path, fs)
  /\ faults < MaxFaults
  /\ faults' = faults + 1
  /\ sw' = SweepAdvance(sw)
  /\ UNCHANGED <<clock, store, nextId, fs, th, gs, collided, start>>

\* ---- generate_slug on its own --------------------------------------------
ByteStrings(n) == [1..n -> GenBytes]

\* generate_slug(length) is called
GenCall ==
  /\ gs.pc = "off"
  /\ \E length \in 1..MaxGenLength : gs' = [GenIdle EXCEPT !.pc = "loop", !.length = length]
  /\ UNCHANGED <<clock, store, nextId, fs, th, sw, faults, collided, start>>

\* lines 140-144: one iteration of the loop
GenDraw ==
  /\ gs.pc = "loop"
  /\ \E bs \in ByteStrings(gs.length) :
       LET slug == SlugOf(token_urlsafe(bs), gs.length)
       IN IF SlugAccepted(slug)
          THEN gs' = [gs EXCEPT !.pc = "returned", !.bytes = bs, !.slug = slug]
          ELSE gs' = [gs EXCEPT !.bytes = bs]
  /\ UNCHANGED <<clock, store, nextId, fs, th, sw, faults, collided, start>>

\* the caller has the slug
GenReturn ==
  /\ gs.pc = "returned"
  /\ gs' = GenIdle
  /\ UNCHANGED <<clock, store, nextId, fs, th, sw, faults, collided, start>>

\* the handler has returned; its thread serves the next request
Return(t) ==
  /\ th[t].pc = "done"
  /\ th' = [th EXCEPT ![t] = Idle]
  /\ UNCHANGED <<clock, store, nextId, fs, sw, gs, faults, collided, start>>

Next ==
  \/ Tick
  \/ \E t \in Threads : CreateBegin(t)
  \/ \E t \in Threads : GenerateSlug(t)
  \/ \E t \in Threads : InsertPage(t)
  \/ \E t \in Threads : GetPageFind(t)
  \/ \E t \in Threads : GetPageNow(t)
  \/ \E t \in Threads : GetPageDelete(t)
  \/ \E t \in Threads : GetPageResolve(t)
  \/ \E t \in Threads : GetPageIsFile(t)
  \/ \E t \in Threads : GetPageRemove(t)
  \/ \E t \in Threads : ViewPageFind(t)
  \/ \E t \in Threads : ViewPageNow(t)
  \/ \E t \in Threads : ViewPageDelete(t)
  \/ \E t \in Threads : ViewPageResolve(t)
  \/ \E t \in Threads : ViewPageIsFile(t)
  \/ \E t \in Threads : ViewPageRemove(t)
  \/ SweepNow
  \/ SweepFind
  \/ SweepResolve
  \/ SweepIsFile
  \/ SweepRemove
  \/ SweepDeleteMany
  \/ SweepSleep
  \/ \E t \in Threads : Return(t)

Spec == Init /\ [][Next]_vars

\* generate_slug alone, for every length up to MaxGenLength
NextGen ==
  \/ GenCall
  \/ GenDraw
  \/ GenReturn

SpecGen == Init /\ [][NextGen]_vars

\* the sweep task: every step of cleanup_loop, failed or not
SweepNext ==
  \/ SweepNow
  \/ SweepFind
  \/ SweepFindFails
  \/ SweepResolve
  \/ SweepIsFile
  \/ SweepRemove
  \/ SweepDeleteMany
  \/ SweepDeleteManyFails
  \/ SweepSleep

\* pages are created and never read, the store may fail, and the event loop
\* keeps scheduling the sweep task
NextUnread ==
  \/ Tick
  \/ \E t \in Threads : CreateBegin(t)
  \/ \E t \in Threads : GenerateSlug(t)
  \/ \E t \in Threads : GenerateSlugFails(t)
  \/ \E t \in Threads : InsertPage(t)
  \/ \E t \in Threads : InsertPageFails(t)
  \/ \E t \in Threads : Return(t)
  \/ SweepNext

SpecUnread == Init /\ [][NextUnread]_vars /\ WF_vars(SweepNext)

\* one worker thread and the sweep task, pages with several asset
\* references, and files that cannot be removed
Worker == 1

NextCleanup ==
  \/ Tick
  \/ CreateBeginAssets(Worker)
  \/ GenerateSlug(Worker)
  \/ InsertPage(Worker)
  \/ GetPageFind(Worker)
  \/ GetPageNow(Worker)
  \/ GetPageDelete(Worker)
  \/ GetPageResolve(Worker)
  \/ GetPageIsFile(Worker)
  \/ GetPageRemove(Worker)
  \/ GetPageRemoveFails(Worker)
  \/ ViewPageFind(Worker)
  \/ ViewPageNow(Worker)
  \/ ViewPageDelete(Worker)
  \/ ViewPageResolve(Worker)
  \/ ViewPageIsFile(Worker)
  \/ ViewPageRemove(Worker)
  \/ ViewPageRemoveFails(Worker)
  \/ SweepNow
  \/ SweepFind
  \/ SweepResolve
  \/ SweepIsFile
  \/ SweepRemove
  \/ SweepRemoveFails
  \/ SweepDeleteMany
  \/ SweepSleep
  \/ Return(Worker)

SpecCleanup == Init /\ [][NextCleanup]_vars

\* one operation at a time: a request or a sweep cycle runs from its first
\* step to its last with nothing else in between, from a state that Observe
\* has recorded
Current == [store |-> store, fs |-> fs, clock |-> clock]

WorkerIdle == th[Worker].pc = "idle"

SweepAsleep == sw.pc = "sleep"

Observe ==
  /\ WorkerIdle /\ SweepAsleep
  /\ start # Current
  /\ start' = Current
  /\ UNCHANGED <<clock, store, nextId, fs, th, sw, gs, faults, collided>>

NextAlone ==
  \/ WorkerIdle /\ SweepAsleep /\ Tick
  \/ Observe
  \/ SweepAsleep /\ CreateBeginAssets(Worker)
  \/ SweepAsleep /\ GenerateSlug(Worker)
  \/ SweepAsleep /\ InsertPage(Worker)
  \/ SweepAsleep /\ Return(Worker)
  \/ SweepAsleep /\ start = Current /\ GetPageFind(Worker)
  \/ SweepAsleep /\ GetPageNow(Worker)
  \/ SweepAsleep /\ GetPageDelete(Worker)
  \/ SweepAsleep /\ GetPageResolve(Worker)
  \/ SweepAsleep /\ GetPageIsFile(Worker)
  \/ SweepAsleep /\ GetPageRemove(Worker)
  \/ SweepAsleep /\ start = Current /\ ViewPageFind(Worker)
  \/ SweepAsleep /\ ViewPageNow(Worker)
  \/ SweepAsleep /\ ViewPageDelete(Worker)
  \/ SweepAsleep /\ ViewPageResolve(Worker)
  \/ SweepAsleep /\ ViewPageIsFile(Worker)
  \/ SweepAsleep /\ ViewPageRemove(Worker)
  \/ WorkerIdle /\ start = Current /\ SweepNow
  \/ WorkerIdle /\ SweepFind
  \/ WorkerIdle /\ SweepResolve
  \/ WorkerIdle /\ SweepIsFile
  \/ WorkerIdle /\ SweepRemove
  \/ WorkerIdle /\ SweepDeleteMany
  \/ WorkerIdle /\ SweepSleep

SpecAlone == Init /\ [][NextAlone]_vars

\* ---- properties --------------------------------------------------------
IsRead(r) == r.op \in {"get", "view"}

Ids(docs) == { d.id : d \in docs }

\* no reference of the document resolves to an existing file
ResolvesToNoFile(doc) == \A i \in 1..Len(doc.assets) : ~ isfile(ResolveAsset(doc.assets[i], fs), fs)

\* C1: the store never holds two records with the same slug, also when
\* create_page requests interleave.
SlugUnique == \A d \in store, e \in store : d.slug = e.slug => d.id = e.id

\* C2: a read answers with the content only if the time it sampled is
\* strictly before the record's expires_at; once the sampled time is at or
\* past expires_at the read carries no content, and when it completes it has
\* answered 410 and the record is gone from the store.
ContentOnlyBeforeExpiry ==
  \A t \in Threads :
    (IsRead(th[t]) /\ th[t].now # None) =>
      /\ th[t].resp.status = 200 => (th[t].now < th[t].doc.expires_at /\ th[t].resp.html = th[t].doc.html)
      /\ th[t].doc.expires_at <= th[t].now => (th[t].resp.status \in {0, 410} /\ th[t].resp.html = "")
      /\ (th[t].doc.expires_at <= th[t].now /\ th[t].pc = "done") =>
           (th[t].resp.status = 410 /\ th[t].doc.id \notin Ids(store))

\* a read that sampled exactly expires_at has answered 410
ExpiredReadRejected ==
  \E t \in Threads : IsRead(th[t]) /\ th[t].pc = "done" /\ th[t].resp.status = 410
                     /\ th[t].doc.expires_at = th[t].now

\* C3: a get_page that samples a time before a stored record's expires_at
\* and answers with content answers with that record's content and assets,
\* for every record stored under the slug.
ReadReturnsSubmitted ==
  [][ \A t \in Threads :
        (th[t].pc = "g_now" /\ th'[t].pc = "done" /\ th'[t].resp.status = 200) =>
          \A d \in store :
            (d.slug = th[t].slug /\ clock < d.expires_at) =>
              (th'[t].resp.html = d.html /\ th'[t].resp.assets = d.assets) ]_vars

\* a read by t starts in this step
ReadStarts(t) == th[t].pc = "idle" /\ IsRead(th'[t])

\* C4 as stated, in runs where no insert has ever duplicated a slug (so that
\* the violation owes nothing to C1): once a read has returned 410 for a slug, every read of
\* that slug that starts afterwards returns 404.
ExpiredThenNotFound ==
  [][ \A u \in Threads, t \in Threads :
        (~ collided /\ IsRead(th[u]) /\ th[u].pc = "done" /\ th[u].resp.status = 410
         /\ ReadStarts(t) /\ th'[t].slug = th[u].slug) =>
          th'[t].resp.status = 404 ]_vars

\* C4, amended: once a read has returned 410 for a record, the record is
\* absent from the store and no read that starts afterwards finds it; such a
\* read of the slug returns 404 unless a record is stored under the slug.
ExpiredRecordNeverFoundAgain ==
  [][ \A u \in Threads, t \in Threads :
        (IsRead(th[u]) /\ th[u].pc = "done" /\ th[u].resp.status = 410) =>
          /\ th[u].doc.id \notin Ids(store)
          /\ ReadStarts(t) =>
               /\ th'[t].doc.id # th[u].doc.id
               /\ (th'[t].slug = th[u].slug /\ Matching(th[u].slug) = {}) => th'[t].resp.status = 404 ]_vars

\* one read has answered 410 for a slug and another has answered 404 for it
ExpiredOnceThenNotFound ==
  \E u \in Threads, t \in Threads :
    /\ IsRead(th[u]) /\ th[u].pc = "done" /\ th[u].resp.status = 410
    /\ IsRead(th[t]) /\ th[t].pc = "done" /\ th[t].resp.status = 404 /\ th[t].slug = th[u].slug
    /\ th[u].doc.id < nextId

\* the sweep cycle ends in this step without having failed
CycleCompletes == sw.pc # "cycle_end" /\ sw'.pc = "cycle_end" /\ ~ sw'.error

\* C5 as stated, in runs where no insert has ever duplicated a slug: when a
\* sweep cycle completes, no record with expires_at <= the cycle's now is in
\* the store.
SweepLeavesNoExpired ==
  [][ (~ collided' /\ CycleCompletes) => \A d \in store' : d.expires_at > sw'.now ]_vars

\* C5, amended: the snapshot holds every record that is in the store with
\* expires_at <= now when the cycle fetches it, and when the cycle completes
\* no record of the snapshot is in the store.
SweepRemovesSnapshot ==
  [][ /\ (sw.pc = "find" /\ sw'.pc # "find" /\ ~ sw'.error) =>
           \A d \in store : d.expires_at <= sw.now => d.id \in SnapshotIds(sw'.expired)
      /\ CycleCompletes => Ids(store') \cap SnapshotIds(sw'.expired) = {} ]_vars

\* a cycle has removed its snapshot and a record that was inserted after the
\* fetch, already expired at the cycle's now, is in the store
ExpiredInsertedAfterFetch ==
  /\ sw.pc = "cycle_end" /\ ~ sw.error /\ sw.expired # <<>>
  /\ Ids(store) \cap SnapshotIds(sw.expired) = {}
  /\ \E d \in store : d.expires_at <= sw.now

\* C6: a step of the sweep removes from the store only records of its
\* snapshot, and these have expires_at <= the cycle's now; a record with a
\* later expires_at is never removed by the sweep.
SweepRemovesOnlyExpired ==
  [][ sw' # sw => \A d \in store \ store' : d.expires_at <= sw.now /\ d.id \in SnapshotIds(sw.expired) ]_vars

\* a cycle has deleted its snapshot while a record with a later expires_at
\* is in the store
SweepSparedFutureRecord ==
  /\ sw.pc = "cycle_end" /\ ~ sw.error /\ sw.expired # <<>>
  /\ Ids(store) \cap SnapshotIds(sw.expired) = {}
  /\ \E d \in store : d.expires_at > sw.now

\* C7: the slug generate_slug(length) returns has exactly length characters,
\* all of them alphanumeric.
SlugHasRequestedLength ==
  gs.pc = "returned" => (Len(gs.slug) = gs.length /\ \A i \in 1..Len(gs.slug) : IsAlnum(gs.slug[i]))

LazyAndSweepRaceSafe ==
  /\ \A t \in Threads : ~ th[t].raised /\ th[t].resp.status # 500
  /\ ~ sw.error
  /\ \A t \in Threads :
       (IsRead(th[t]) /\ th[t].pc = "done" /\ th[t].doc # NoDoc /\ th[t].doc.expires_at <= th[t].now
        /\ th[t].doc.id \in SnapshotIds(sw.expired)) =>
         /\ th[t].resp.status = 410
         /\ sw.pc = "cycle_end" => (th[t].doc.id \notin Ids(store) /\ ResolvesToNoFile(th[t].doc)
                                    /\ \A p \in th[t].paths \cup sw.paths : ~ isfile(p, fs))

\* a read has answered 410 for a record of the snapshot of a completed cycle
\* whose file one of the two found already removed
LazyAndSweepOverlapped ==
  \E t \in Threads :
    /\ IsRead(th[t]) /\ th[t].pc = "done" /\ th[t].resp.status = 410
    /\ sw.pc = "cycle_end" /\ th[t].doc.id \in SnapshotIds(sw.expired)
    /\ th[t].paths # {} /\ th[t].paths \subseteq sw.paths

\* C10: a record whose expires_at has passed is eventually no longer in the
\* store, with no read at all, when the sweep task keeps being scheduled and
\* the store fails only finitely often.
ExpiredEventuallyRemoved ==
  \A id \in 1..MaxPages :
    (\E d \in store : d.id = id /\ d.expires_at <= clock) ~> (\A d \in store : d.id # id)

\* a cycle has removed expired records after the store had failed
SweepRecoveredAfterFault ==
  /\ faults > 0
  /\ sw.pc = "cycle_end" /\ ~ sw.error /\ sw.expired # <<>>
  /\ Ids(store) \cap SnapshotIds(sw.expired) = {}

\* the files the references of a record resolve to
AssetFiles(doc) == { p \in fs : \E i \in 1..Len(doc.assets) : p = ResolveAsset(doc.assets[i], fs) }

\* the records whose expiry the step carries out: the record of the read
\* that moves, the snapshot of the sweep when it moves
ExpiringInStep ==
  { th[t].doc : t \in { u \in Threads : th'[u] # th[u] /\ IsRead(th[u]) /\ th[u].pc \notin {"idle", "done"}
                                          /\ th[u].now # None /\ th[u].doc.expires_at <= th[u].now } }
  \cup (IF sw' # sw THEN { sw.expired[i] : i \in 1..Len(sw.expired) } ELSE {})

\* C11: a step of the expiry of record A (by a read or by the sweep) leaves
\* every record B under another slug that is still alive in the store, and
\* leaves every file that B references in place.
ExpiryLeavesOthersAlone ==
  [][ \A a \in ExpiringInStep : \A b \in store :
        (b.slug # a.slug /\ b.expires_at > clock) => (b \in store' /\ AssetFiles(b) \subseteq fs') ]_vars

\* the records some request or the sweep holds: each was in the store
KnownDocs ==
  { th[u].doc : u \in { v \in Threads : th[v].doc # NoDoc } } \cup { sw.expired[i] : i \in 1..Len(sw.expired) }

\* C12 as stated: a read of a slug under which a record existed whose TTL has
\* passed does not signal 404, the outcome for slugs that never existed.
ExpiredSlugNeverNotFound ==
  [][ \A t \in Threads :
        (ReadStarts(t) /\ \E d \in KnownDocs : d.slug = th'[t].slug /\ d.expires_at <= clock) =>
          th'[t].resp.status # 404 ]_vars

\* C12, amended: a read signals 404 exactly when no record is stored under
\* the slug at its find_one, and a read that completes signals 410 exactly
\* when it found a record whose expires_at <= the time it sampled, never 404
\* for a record it found.
ExpiredVersusNotFound ==
  [][ \A t \in Threads :
        /\ ReadStarts(t) =>
             /\ th'[t].resp.status \in {0, 404}
             /\ th'[t].resp.status = 404 <=> Matching(th'[t].slug) = {}
             /\ th'[t].resp.status = 404 <=> th'[t].doc = NoDoc
        /\ (IsRead(th'[t]) /\ th'[t].pc = "done" /\ th'[t].doc # NoDoc) =>
             /\ th'[t].resp.status \in {200, 410}
             /\ th'[t].resp.status = 410 <=> th'[t].doc.expires_at <= th'[t].now ]_vars

\* two reads have answered 404 for a slug whose record a completed sweep
\* cycle had in its snapshot
NotFoundAfterSweep ==
  /\ sw.pc = "cycle_end" /\ ~ sw.error
  /\ \E i \in 1..Len(sw.expired) : \A t \in Threads :
        IsRead(th[t]) /\ th[t].pc = "done" /\ th[t].resp.status = 404 /\ th[t].slug = sw.expired[i].slug

\* the cleanup has tried every reference of the document
Attempted(doc, paths) ==
  \A i \in 1..Len(doc.assets) :
    join(Cwd, lstrip(doc.assets[i])) \in paths \/ ResolveFallback(doc.assets[i], fs) \in paths

\* C13: an os.remove that fails is absorbed where it occurs: no request ends
\* in an exception and no cycle is aborted; a read of an expired record that
\* completes has deleted the record, tried every reference and answered 410;
\* a sweep cycle that completes has tried every reference of every record of
\* its snapshot and no record of the snapshot is in the store.
RemoveFailureAbsorbed ==
  /\ \A t \in Threads : ~ th[t].raised /\ th[t].resp.status # 500
  /\ ~ sw.error
  /\ \A t \in Threads :
       (IsRead(th[t]) /\ th[t].pc = "done" /\ th[t].doc # NoDoc /\ th[t].doc.expires_at <= th[t].now) =>
         /\ th[t].resp.status = 410
         /\ th[t].doc.id \notin Ids(store)
         /\ th[t].idx = Len(th[t].doc.assets)
         /\ Attempted(th[t].doc, th[t].paths)
  /\ sw.pc = "cycle_end" =>
       /\ Ids(store) \cap SnapshotIds(sw.expired) = {}
       /\ \A i \in 1..Len(sw.expired) : Attempted(sw.expired[i], sw.paths)

\* a sweep cycle has completed and deleted its snapshot although a file it
\* tried is still there (its os.remove failed), and it removed another file
RemovalFailedBatchDone ==
  /\ sw.pc = "cycle_end" /\ sw.expired # <<>>
  /\ Ids(store) \cap SnapshotIds(sw.expired) = {}
  /\ \E p \in sw.paths : isfile(p, fs)
  /\ \E p \in sw.paths : ~ isfile(p, fs) /\ p \in InitialFiles

\* C14: when a cycle of the sweep has failed (find or delete_many raised),
\* the loop goes on: a later cycle runs its find without failing and has in
\* its snapshot every record that was expired at the failed cycle and is
\* still stored, when the task keeps being scheduled and the store fails
\* only finitely often.
FailedCycleRetried ==
  \A id \in 1..MaxPages :
    (sw.error /\ \E d \in store : d.id = id /\ d.expires_at <= sw.now)
      ~> (~ sw.error /\ sw.pc # "dead" /\ (id \in SnapshotIds(sw.expired) \/ id \notin Ids(store)))

\* delete_many has failed, the failure was swallowed and line 69 is reached
\* with the expired records of the snapshot still in the store
SweepCycleFailed ==
  /\ sw.pc = "cycle_end" /\ sw.error /\ sw.expired # <<>>
  /\ SnapshotIds(sw.expired) \subseteq Ids(store)

\* C15: a get_page that answers with the content reports remaining_seconds
\* = max(0, expires_at - now) for the time it sampled, and the value lies
\* between 0 and the TTL the record was created with (expires_at -
\* created_at).
RemainingWithinTtl ==
  \A t \in Threads :
    (th[t].op = "get" /\ th[t].pc = "done" /\ th[t].resp.status = 200) =>
      /\ th[t].resp.remaining_seconds = Max(0, th[t].doc.expires_at - th[t].now)
      /\ th[t].resp.remaining_seconds >= 0
      /\ th[t].resp.remaining_seconds <= th[t].doc.expires_at - th[t].doc.created_at
      /\ th[t].doc.created_at <= th[t].now

\* a get_page has answered, some time after the creation, with a remaining
\* time below the TTL of the record
RemainingBelowTtl ==
  \E t \in Threads :
    /\ th[t].op = "get" /\ th[t].pc = "done" /\ th[t].resp.status = 200
    /\ th[t].now > th[t].doc.created_at
    /\ th[t].resp.remaining_seconds > 0
    /\ th[t].resp.remaining_seconds < th[t].doc.expires_at - th[t].doc.created_at

\* the TTL create_page is to use for a request body
RequestedTtl(payload) == IF payload.ttl_seconds = None THEN DEFAULT_TTL_SECONDS ELSE payload.ttl_seconds

\* C16: every stored record has expires_at = created_at + ttl with ttl within
\* 60..86400; a create_page that has answered 200 had a body whose
\* ttl_seconds is absent or within 60..86400, stored a record with expires_at
\* = created_at + (the requested ttl_seconds, or 600 when absent), and
\* returned that ttl and that expires_at.
ExpiresAtIsCreatedPlusTtl ==
  /\ \A d \in store :
       d.expires_at - d.created_at >= MinTtlSeconds /\ d.expires_at - d.created_at <= MaxTtlSeconds
  /\ \A t \in Threads :
       (th[t].op = "create" /\ th[t].pc = "done" /\ th[t].resp.status = 200) =>
         /\ th[t].payload.ttl_seconds = None
              \/ (th[t].payload.ttl_seconds >= MinTtlSeconds /\ th[t].payload.ttl_seconds <= MaxTtlSeconds)
         /\ th[t].doc.expires_at = th[t].doc.created_at + RequestedTtl(th[t].payload)
         /\ th[t].resp.ttl_seconds = RequestedTtl(th[t].payload)
         /\ th[t].resp.expires_at = th[t].doc.expires_at
         /\ th[t].resp.slug = th[t].doc.slug
  /\ \A t \in Threads :
       (th[t].op = "rejected") => (th[t].resp.status = 422 /\ th[t].doc = NoDoc)

\* a create_page with no ttl_seconds has stored a record that expires 600 s
\* after its creation, some time after it sampled the clock
DefaultTtlStored ==
  \E t \in Threads :
    /\ th[t].op = "create" /\ th[t].pc = "done" /\ th[t].resp.status = 200
    /\ th[t].payload.ttl_seconds = None /\ th[t].resp.ttl_seconds = DEFAULT_TTL_SECONDS
    /\ th[t].doc \in store /\ th[t].doc.expires_at = th[t].doc.created_at + DEFAULT_TTL_SECONDS
    /\ clock > th[t].doc.created_at

\* the path is inside the upload directory
UnderUploadDir(path) == Len(path) > Len(UPLOAD_DIR) /\ SubSeq(path, 1, Len(UPLOAD_DIR)) = UPLOAD_DIR

\* C17: every file a step of the lazy path or of the sweep removes is inside
\* UPLOAD_DIR; no file elsewhere under the working directory is removed.
OnlyUploadsRemoved ==
  [][ \A p \in fs \ fs' : UnderUploadDir(p) ]_vars

\* C18: a step of a read never adds to the store, and removes from it at
\* most the record the read looked up, and that only when the record's
\* expires_at <= the time the read sampled; no other record, of the same
\* slug or not, is removed by it.
LazyDeletesOnlyLookedUp ==
  [][ \A t \in Threads :
        (th'[t] # th[t] /\ IsRead(th[t])) =>
          /\ store' \subseteq store
          /\ store' # store =>
               /\ store \ store' = {th[t].doc}
               /\ th[t].now # None /\ th[t].doc.expires_at <= th[t].now ]_vars

\* two records were stored under one slug; a read has expired the first and
\* the second is still in the store
LazyExpirySparedSameSlug ==
  \E t \in Threads :
    /\ IsRead(th[t]) /\ th[t].pc = "done" /\ th[t].resp.status = 410
    /\ collided /\ nextId = 3 /\ th[t].doc.id = 1
    /\ \E d \in store : d.id = 2 /\ d.slug = th[t].doc.slug

\* the expiry engine, on a store, files and clock value st: the cleanup of a
\* list of references, the expiry of a record, a read of a slug, and the
\* expiry of a list of records one after the other
RECURSIVE EngineCleanup(_, _)
EngineCleanup(assets, files) ==
  IF assets = <<>> THEN files
  ELSE EngineCleanup(Tail(assets), files \ {ResolveAsset(Head(assets), files)})

EngineExpire(doc, st) == [st EXCEPT !.store = st.store \ {doc}, !.fs = EngineCleanup(doc.assets, st.fs)]

EngineRead(slug, st) ==
  LET found == { d \in st.store : d.slug = slug }
      doc == CHOOSE d \in found : \A e \in found : d.id <= e.id
  IN IF found = {} THEN [decision |-> "not_found", after |-> st]
     ELSE IF doc.expires_at <= st.clock THEN [decision |-> "expired", after |-> EngineExpire(doc, st)]
     ELSE [decision |-> "alive", after |-> st]

RECURSIVE EngineExpireAll(_, _)
EngineExpireAll(docs, st) ==
  IF docs = <<>> THEN st ELSE EngineExpireAll(Tail(docs), EngineExpire(Head(docs), st))

Decision(status) == IF status = 404 THEN "not_found" ELSE IF status = 410 THEN "expired" ELSE "alive"

\* C19: run alone from the same store, files and clock, get_page and
\* view_page both make the decision of the engine for the slug and leave the
\* store and the files as the engine does; a sweep cycle run alone removes
\* the records with expires_at <= now, and leaves the store and the files as
\* the lazy expiry of each of these records, one after the other, does.
SameExpiryEngine ==
  /\ (IsRead(th[Worker]) /\ th[Worker].pc = "done") =>
       LET e == EngineRead(th[Worker].slug, start)
       IN /\ th[Worker].resp.status \in {200, 404, 410}
          /\ Decision(th[Worker].resp.status) = e.decision
          /\ Current = e.after
  /\ sw.pc = "cycle_end" =>
       /\ \A d \in start.store : d.expires_at <= start.clock <=> d.id \in SnapshotIds(sw.expired)
       /\ Current = EngineExpireAll(sw.expired, start)

\* a view_page run alone has answered 410 and has removed a record and a
\* file
ViewExpiredAlone ==
  /\ th[Worker].op = "view" /\ th[Worker].pc = "done" /\ th[Worker].resp.status = 410
  /\ store # start.store /\ fs # start.fs
====
